---- MODULE Spec2Model ----
(***************************************************************************)
(* Model of the textblocks crate (src/src/lib.rs): the TextBlocks trait    *)
(* with as_blocks, block_parse_lines and block_parse, and the private      *)
(* delimiters() resolver.  A document is a sequence of characters, each    *)
(* character a one-character string.  One behaviour is one call of one of  *)
(* the three methods on one document with one BlockDelimiter; the caller's *)
(* closures are invoked one per step, in the order Rust's lazy iterator    *)
(* chain invokes them, and every invocation is appended to `calls`.        *)
(***************************************************************************)
EXTENDS Integers, Sequences, FiniteSets, TLC

\* ------------------------------------------------------------------ bounds
MaxLen == 5
MaxLongLen == 6

\* -------------------------------------------------------------- characters
LF == "\n"
CR == "\r"
SP == " "
Alphabet == {"a", "*", SP, LF, CR}
LongAlphabet == {"a", "*", LF}
WhiteSpace == {SP, LF, CR}

Seqs(A, n) == UNION {[1..k -> A] : k \in 0..n}
Documents == Seqs(Alphabet, MaxLen) \cup Seqs(LongAlphabet, MaxLongLen)

\* BlockDelimiter enum values handed to the methods
DoubleLineGeneric == [kind |-> "DoubleLineGeneric", d |-> <<>>]
Delimiter(d) == [kind |-> "Delimiter", d |-> d]
Pattern(d) == [kind |-> "Pattern", d |-> d]
BlockDelimiters == {DoubleLineGeneric, Delimiter(<<"*">>), Pattern(<<"*">>)}

\* caller-supplied closures: |x| x and |x| x.len() ; |x| x and reversal
LineParsers == {"identity", "len"}
BlockParsers == {"identity", "rev"}

\* ------------------------------------------------------- str primitives
RECURSIVE trim_start(_)
trim_start(t) ==
  IF t # <<>> /\ Head(t) \in WhiteSpace THEN trim_start(Tail(t)) ELSE t

RECURSIVE trim_end(_)
trim_end(t) ==
  IF t # <<>> /\ t[Len(t)] \in WhiteSpace
  THEN trim_end(SubSeq(t, 1, Len(t) - 1)) ELSE t

trim(t) == trim_end(trim_start(t))

starts_with(t, p) == Len(p) <= Len(t) /\ SubSeq(t, 1, Len(p)) = p

ends_with(t, p) ==
  Len(p) <= Len(t) /\ SubSeq(t, Len(t) - Len(p) + 1, Len(t)) = p

contains(t, p) ==
  \E i \in 1..(Len(t) - Len(p) + 1) : SubSeq(t, i, i + Len(p) - 1) = p

\* str::split on a non-empty literal: leftmost non-overlapping matches, every
\* piece kept (empty ones too); the empty string yields one empty piece.
RECURSIVE split_from(_, _, _)
split_from(rest, p, cur) ==
  IF rest = <<>> THEN <<cur>>
  ELSE IF starts_with(rest, p)
       THEN <<cur>> \o split_from(SubSeq(rest, Len(p) + 1, Len(rest)), p, <<>>)
       ELSE split_from(Tail(rest), p, Append(cur, Head(rest)))

split(t, p) == split_from(t, p, <<>>)

RECURSIVE join(_, _)
join(pieces, sep) ==
  IF pieces = <<>> THEN <<>>
  ELSE IF Len(pieces) = 1 THEN pieces[1]
       ELSE pieces[1] \o sep \o join(Tail(pieces), sep)

RECURSIVE rev(_)
rev(v) == IF v = <<>> THEN <<>> ELSE Append(rev(Tail(v)), Head(v))

\* ------------------------------------------------------------ delimiters
delimiters_pattern_fallback(crlf, bdel) ==
  [panic |-> FALSE,
   line  |-> IF crlf THEN <<CR, LF>> ELSE <<LF>>,
   block |-> IF bdel.kind = "Delimiter" THEN bdel.d
             ELSE IF crlf THEN <<CR, LF, CR, LF>> ELSE <<LF, LF>>]

delimiters(crlf, bdel) ==
  [panic |-> bdel.kind = "Pattern",
   line  |-> IF crlf THEN <<CR, LF>> ELSE <<LF>>,
   block |-> CASE bdel.kind = "Pattern" -> <<>>
               [] bdel.kind = "DoubleLineGeneric" /\ crlf -> <<CR, LF, CR, LF>>
               [] bdel.kind = "DoubleLineGeneric" /\ ~crlf -> <<LF, LF>>
               [] bdel.kind = "Delimiter" -> bdel.d]

\* -------------------------------------------------------------- as_blocks
as_blocks(str, bdel) ==
  LET dl == delimiters(contains(str, <<CR>>), bdel) IN
  IF dl.panic THEN [panic |-> TRUE, value |-> <<>>]
  ELSE IF str = <<>> THEN [panic |-> FALSE, value |-> <<>>]
  ELSE LET xs == split(trim(str), dl.block) IN
       [panic |-> FALSE,
        value |-> [i \in 1..Len(xs) |-> split(trim(xs[i]), dl.line)]]

\* ------------------------------------- pieces of the two parsing methods
\* if s.is_empty() { return vec![]; }
early_return_never(str) == FALSE

early_return(str) == str = <<>>

\* s.trim().split(&block_delimiter)
block_segments(str, bdelim) == split(trim(str), bdelim)

\* block_parse_lines: x.trim().split(&line_delimiter)
parse_lines_block_untrimmed(x, ldelim) == split(x, ldelim)

parse_lines_block(x, ldelim) == split(trim(x), ldelim)

\* block_parse: block.split(&line_delimiter)
parse_block_skip_empty(block, ldelim) ==
  SelectSeq(split(block, ldelim), LAMBDA l : l # <<>>)

parse_block(block, ldelim) == split(block, ldelim)

line_parser(f, line) == IF f = "identity" THEN line ELSE Len(line)

block_parser(f, v) == IF f = "identity" THEN v ELSE rev(v)

\* ------------------------------------------------------------------ state
VARIABLES s, bd, op, lp, bp, pc, line_delimiter, block_delimiter,
          segs, lines, inner, out, calls, blk

vars == <<s, bd, op, lp, bp, pc, line_delimiter, block_delimiter,
          segs, lines, inner, out, calls, blk>>

Init ==
  /\ s \in Documents
  /\ bd \in BlockDelimiters
  /\ op = "none" /\ lp = "none" /\ bp = "none"
  /\ pc = "idle"
  /\ line_delimiter = <<>> /\ block_delimiter = <<>>
  /\ segs = <<>> /\ lines = <<>> /\ inner = <<>>
  /\ out = <<>> /\ calls = <<>> /\ blk = 0

\* as_blocks: no closure is involved, the whole call is one step
AsBlocks ==
  /\ pc = "idle"
  /\ LET dl == delimiters(contains(s, <<CR>>), bd)
         r == as_blocks(s, bd) IN
     /\ op' = "as_blocks"
     /\ pc' = IF r.panic THEN "panic" ELSE "done"
     /\ out' = r.value
     /\ line_delimiter' = IF dl.panic THEN <<>> ELSE dl.line
     /\ block_delimiter' = IF dl.panic THEN <<>> ELSE dl.block
  /\ UNCHANGED <<s, bd, lp, bp, segs, lines, inner, calls, blk>>

\* entry of block_parse_lines / block_parse up to the construction of the
\* outer split iterator
Enter(o, f, g) ==
  /\ pc = "idle"
  /\ op' = o /\ lp' = f /\ bp' = g
  /\ LET dl == delimiters(contains(s, <<CR>>), bd) IN
     IF dl.panic
     THEN /\ pc' = "panic"
          /\ UNCHANGED <<line_delimiter, block_delimiter, segs>>
     ELSE /\ line_delimiter' = dl.line
          /\ block_delimiter' = dl.block
          /\ segs' = IF early_return(s) THEN <<>>
                     ELSE block_segments(s, dl.block)
          /\ pc' = IF early_return(s) THEN "done" ELSE "blocks"
  /\ UNCHANGED <<s, bd, lines, inner, out, calls, blk>>

BlockParseLines == \E f \in LineParsers : Enter("block_parse_lines", f, "none")

BlockParse == \E f \in LineParsers, g \in BlockParsers : Enter("block_parse", f, g)

\* the outer iterator yields the next segment and the inner split is built
NextBlock ==
  /\ pc = "blocks" /\ segs # <<>>
  /\ lines' = IF op = "block_parse" THEN parse_block(Head(segs), line_delimiter)
              ELSE parse_lines_block(Head(segs), line_delimiter)
  /\ segs' = Tail(segs)
  /\ inner' = <<>>
  /\ blk' = blk + 1
  /\ pc' = "lines"
  /\ UNCHANGED <<s, bd, op, lp, bp, line_delimiter, block_delimiter, out, calls>>

\* the outer iterator is exhausted: collect() returns
Return ==
  /\ pc = "blocks" /\ segs = <<>>
  /\ pc' = "done"
  /\ UNCHANGED <<s, bd, op, lp, bp, line_delimiter, block_delimiter,
                 segs, lines, inner, out, calls, blk>>

\* .map(|line| line_parser(line)) on the next line of the current block
LineParser ==
  /\ pc = "lines" /\ lines # <<>>
  /\ calls' = Append(calls, [f |-> "line", blk |-> blk, arg |-> Head(lines)])
  /\ inner' = Append(inner, line_parser(lp, Head(lines)))
  /\ lines' = Tail(lines)
  /\ UNCHANGED <<s, bd, op, lp, bp, pc, line_delimiter, block_delimiter,
                 segs, out, blk>>

\* block_parse_lines: the inner collect() ends, the Vec<INNER> is the item
CollectLines ==
  /\ pc = "lines" /\ lines = <<>> /\ op = "block_parse_lines"
  /\ out' = Append(out, inner)
  /\ inner' = <<>>
  /\ pc' = "blocks"
  /\ UNCHANGED <<s, bd, op, lp, bp, line_delimiter, block_delimiter,
                 segs, lines, calls, blk>>

\* block_parse: the inner collect() ends and .map(block_parser) runs on it
BlockParser ==
  /\ pc = "lines" /\ lines = <<>> /\ op = "block_parse"
  /\ calls' = Append(calls, [f |-> "block", blk |-> blk, arg |-> inner])
  /\ out' = Append(out, block_parser(bp, inner))
  /\ inner' = <<>>
  /\ pc' = "blocks"
  /\ UNCHANGED <<s, bd, op, lp, bp, line_delimiter, block_delimiter,
                 segs, lines, blk>>

Next ==
  \/ AsBlocks
  \/ BlockParseLines
  \/ BlockParse
  \/ NextBlock
  \/ Return
  \/ LineParser
  \/ CollectLines
  \/ BlockParser

Spec == Init /\ [][Next]_vars

\* ------------------------------------------------------------ properties
NotPattern == bd.kind # "Pattern"
EmptyBlock == << <<>> >>

\* C1: block_parse with the identity closures returns what as_blocks returns
\* on the same document and delimiter, for every non-Pattern delimiter.
C1_BlockParseIdentityEqualsAsBlocks ==
  (op = "block_parse" /\ pc = "done" /\ lp = "identity" /\ bp = "identity"
     /\ NotPattern)
  => out = as_blocks(s, bd).value

\* C2: under the default delimiter as_blocks returns zero blocks for the
\* empty document and for every document made only of whitespace.
C2_WhitespaceOnlyYieldsNoBlocks ==
  (op = "as_blocks" /\ pc = "done" /\ bd = DoubleLineGeneric /\ trim(s) = <<>>)
  => out = <<>>

\* C3: for a document with content that ends with the resolved block
\* delimiter, the last block as_blocks returns is never the single empty line.
C3_NoTrailingEmptyBlock ==
  (op = "as_blocks" /\ pc = "done" /\ NotPattern /\ trim(s) # <<>>
     /\ ends_with(s, block_delimiter))
  => (out = <<>> \/ out[Len(out)] # EmptyBlock)

\* C4: with Pattern every method fails with the not-implemented panic for
\* every document: nothing is returned and no closure is invoked.
C4_PatternAlwaysPanics ==
  bd.kind = "Pattern"
  => (pc \in {"idle", "panic"} /\ calls = <<>> /\ out = <<>>)

C4_Witness ==
  bd.kind = "Pattern" /\ pc = "panic" /\ s = <<>> /\ op = "block_parse"

\* C5: block_parse_lines with the identity closure returns what as_blocks
\* returns on the same document and delimiter (same blocks, lines, order).
C5_BlockParseLinesIdentityEqualsAsBlocks ==
  (op = "block_parse_lines" /\ pc = "done" /\ lp = "identity" /\ NotPattern)
  => out = as_blocks(s, bd).value

C5_Witness ==
  /\ op = "block_parse_lines" /\ pc = "done" /\ lp = "identity" /\ NotPattern
  /\ Len(out) >= 2
  /\ \E i \in 1..Len(out) : Len(out[i]) >= 2
  /\ LET xs == split(trim(s), block_delimiter) IN
     \E i \in 1..Len(xs) : trim(xs[i]) # xs[i]

\* C6: rebuilding a document from as_blocks(D) with D's resolved delimiters
\* gives D trimmed with each segment trimmed, and as_blocks of the rebuilt
\* document equals as_blocks(D).
Rebuilt == join([i \in 1..Len(out) |-> join(out[i], line_delimiter)],
                block_delimiter)

C6_RebuildRoundTrips ==
  (op = "as_blocks" /\ pc = "done" /\ NotPattern)
  => LET xs == IF s = <<>> THEN <<>> ELSE split(trim(s), block_delimiter) IN
     /\ Rebuilt = join([i \in 1..Len(xs) |-> trim(xs[i])], block_delimiter)
     /\ as_blocks(Rebuilt, bd).value = out

\* C7: with DoubleLineGeneric the delimiters are "\r\n\r\n" and "\r\n" if and
\* only if the document contains "\r\n"; otherwise they are "\n\n" and "\n".
C7_CrlfIffDocumentHoldsCrLf ==
  (bd = DoubleLineGeneric /\ pc # "idle")
  => IF contains(s, <<CR, LF>>)
     THEN block_delimiter = <<CR, LF, CR, LF>> /\ line_delimiter = <<CR, LF>>
     ELSE block_delimiter = <<LF, LF>> /\ line_delimiter = <<LF>>

\* C8: for the empty document and a non-Pattern delimiter, block_parse and
\* block_parse_lines return the empty sequence and invoke no closure.
C8_EmptyDocumentNoCalls ==
  (s = <<>> /\ NotPattern /\ op \in {"block_parse", "block_parse_lines"})
  => (pc = "done" /\ out = <<>> /\ calls = <<>>)

C8_Witness ==
  s = <<>> /\ NotPattern /\ op = "block_parse" /\ pc = "done"

\* C9: in a block_parse call the closures run block by block in document
\* order: one line_parser call per line of the block in order, then exactly
\* one block_parser call on exactly those results, before any line of the
\* next block; block_parser calls are as many as elements returned.
LineArgsOf(b) ==
  LET cs == SelectSeq(calls, LAMBDA c : c.f = "line" /\ c.blk = b) IN
  [k \in 1..Len(cs) |-> cs[k].arg]

BlockCallsOf(b) == SelectSeq(calls, LAMBDA c : c.f = "block" /\ c.blk = b)

C10_BlocksHoldNonEmptyLines ==
  (op = "as_blocks" /\ pc = "done" /\ bd = DoubleLineGeneric)
  => \A i \in 1..Len(out) :
       out[i] # EmptyBlock /\ \A j \in 1..Len(out[i]) : out[i][j] # <<>>
====
